---- MODULE Spec2Model ----
(***************************************************************************)
(* Model of its-incident-app/_sample/main.py: RawEmailForwarder and the    *)
(* lambda_handler entry point.  One behaviour is one invocation of         *)
(* lambda_handler on one event, in one environment, against one bucket.    *)
(***************************************************************************)
EXTENDS Integers, Sequences, FiniteSets, TLC

VARIABLES environ, event, bucket_objects, pc, forwarder, idx, message_id,
          data, calls, reads, posts, log, result

vars == <<environ, event, bucket_objects, pc, forwarder, idx, message_id,
          data, calls, reads, posts, log, result>>

(* ------------------------------ bounds -------------------------------- *)

MaxRecords == 2

(* ------------------------ values of the program ----------------------- *)

HTTP_OK == 200
Timeout == 300

Null == [t |-> "null"]
Str(s) == [t |-> "str", s |-> s]
Num(n) == [t |-> "num", n |-> n]
Dict(items) == [t |-> "dict", items |-> items]
List(xs) == [t |-> "list", xs |-> xs]

NoExc == [type |-> "none", detail |-> ""]
Exc(type, detail) == [type |-> type, detail |-> detail]

(* dict.get(key, default) of a mapping given as a set of <<key, value>>.   *)
Has(d, k) == \E p \in d.items : p[1] = k
Get(d, k, default) ==
    IF Has(d, k) THEN (CHOOSE p \in d.items : p[1] = k)[2] ELSE default

(* ------------------------------ inputs -------------------------------- *)

EndpointUrl == "https://api.example/mail"
BucketName == "raw-mail"

Environs == SUBSET {<<"API_ENDPOINT", EndpointUrl>>,
                    <<"S3_BUCKET_NAME", BucketName>>}

Keys == {"m1", "m2", "7"}

StoredBytes(k) ==
    CASE k = "m1" -> <<70, 114, 111, 109>>
      [] k = "m2" -> <<255, 0, 13, 10>>
      [] OTHER    -> <<55>>

Buckets == {{<<BucketName, k, StoredBytes(k)>> : k \in ks} : ks \in SUBSET Keys}

Mail(v) == Dict({<<"ses", Dict({<<"mail", Dict({<<"messageId", v>>})>>})>>})

RecordShapes ==
    { Dict({}),
      Dict({<<"ses", Dict({})>>}),
      Dict({<<"ses", Dict({<<"mail", Dict({})>>})>>}),
      Mail(Str("")),
      Mail(Null),
      Mail(Str("m1")),
      Mail(Str("m2")),
      Mail(Num(7)),
      Dict({<<"ses", Null>>}),
      Dict({<<"ses", Dict({<<"mail", Str("x")>>})>>}) }

RecordSeqs == UNION {[1..n -> RecordShapes] : n \in 0..MaxRecords}

Events == {Dict({})} \cup {Dict({<<"Records", List(rs)>>}) : rs \in RecordSeqs}

Statuses == {200, 201, 404, 500}
StorageFaults == {"AccessDenied", "EndpointConnectionError"}
NetworkFaults == {"URLError", "TimeoutError"}

(* --------------------------- pure helpers ----------------------------- *)

(* f"{message_id}" *)
Format(v) == IF v.t = "str" THEN v.s ELSE ToString(v.n)

(* the truth value Python gives `if message_id:` *)
TruthyAlt(v) == v.t # "null"
Truthy(v) ==
    CASE v.t = "null" -> FALSE
      [] v.t = "str"  -> v.s # ""
      [] v.t = "num"  -> v.n # 0
      [] v.t = "dict" -> v.items # {}
      [] OTHER        -> v.xs # <<>>

(* event.get("Records", []) *)
Records == Get(event, "Records", List(<<>>)).xs

(* os.environ[name] *)
InEnviron(name) == \E p \in environ : p[1] = name
Environ(name) == (CHOOSE p \in environ : p[1] = name)[2]

(* s3_client.get_object(Bucket=..., Key=...)["Body"].read() *)
HasObject(bucket, key) == \E o \in bucket_objects : o[1] = bucket /\ o[2] = key
ObjectBytes(bucket, key) ==
    (CHOOSE o \in bucket_objects : o[1] = bucket /\ o[2] = key)[3]

(* str(e) as a sequence of tokens *)
StrExc(e) ==
    IF e.type = "HTTPError" THEN <<"HTTP Error", e.detail>> ELSE <<e.detail>>

Mentions(line, tok) == \E k \in DOMAIN line : line[k] = tok

(* print(f"API error status code: {response.status}") *)
ApiErrorLine(status) == <<"API error status code:", ToString(status)>>

(* print(f"Error processing message {message_id}: {str(e)}") *)
ErrorLineAlt(mid, e) == <<"Error processing message", ":">> \o StrExc(e)
ErrorLine(mid, e) == <<"Error processing message", Format(mid), ":">> \o StrExc(e)

(* `if response.status != 200` *)
IsRejectedAlt(status) == status >= 300
IsRejected(status) == status # HTTP_OK

(* urllib's HTTPErrorProcessor: a response outside 2xx is raised as HTTPError *)
RaisesHTTPError(status) == ~(200 <= status /\ status < 300)

(* urllib.request.Request(url=..., data=..., method="POST", headers=...) *)
RequestAlt(fw, mid, body) ==
    [url |-> fw.api_endpoint, data |-> body, method |-> "POST",
     header |-> Str(Format(mid) \o "\n"), timeout |-> Timeout]
Request(fw, mid, body) ==
    [url |-> fw.api_endpoint, data |-> body, method |-> "POST",
     header |-> mid, timeout |-> Timeout]

(* the POSTs one urlopen call puts on the wire *)
WireAlt(req) == <<req, req>>
Wire(req) == <<req>>

(* ------------------------------- state -------------------------------- *)

NoForwarder == [api_endpoint |-> "", bucket_name |-> ""]
NoResult == [kind |-> "none", statusCode |-> 0, exc |-> NoExc]

Init ==
    /\ environ \in Environs
    /\ event \in Events
    /\ bucket_objects \in Buckets
    /\ pc = "init"
    /\ forwarder = NoForwarder
    /\ idx = 0
    /\ message_id = Null
    /\ data = <<>>
    /\ calls = <<>>
    /\ reads = <<>>
    /\ posts = <<>>
    /\ log = <<>>
    /\ result = NoResult

(* the running forward_email call ends with this outcome *)
Finish(outcome, e) ==
    [calls EXCEPT ![Len(calls)] =
        [calls[Len(calls)] EXCEPT !.outcome = outcome, !.exc = e]]

(* an exception leaving lambda_handler *)
Propagate(e) ==
    /\ pc' = "raised"
    /\ result' = [kind |-> "raise", statusCode |-> 0, exc |-> e]

(* except Exception as e: print(...); raise -- and lambda_handler has no try *)
RaiseAlt(e) ==
    /\ log' = Append(log, [pos |-> idx, line |-> ErrorLine(message_id, e)])
    /\ calls' = Finish("raised", e)
    /\ pc' = "loop"
    /\ UNCHANGED result
Raise(e) ==
    /\ log' = Append(log, [pos |-> idx, line |-> ErrorLine(message_id, e)])
    /\ calls' = Finish("raised", e)
    /\ Propagate(e)

(* forwarder = RawEmailForwarder() *)
ConstructAlt ==
    /\ pc = "init"
    /\ forwarder' =
         [api_endpoint |-> IF InEnviron("API_ENDPOINT")
                           THEN Environ("API_ENDPOINT") ELSE "",
          bucket_name |-> IF InEnviron("S3_BUCKET_NAME")
                          THEN Environ("S3_BUCKET_NAME") ELSE BucketName]
    /\ pc' = "loop"
    /\ UNCHANGED <<environ, event, bucket_objects, idx, message_id, data,
                   calls, reads, posts, log, result>>
Construct ==
    /\ pc = "init"
    /\ IF ~InEnviron("API_ENDPOINT")
       THEN /\ Propagate(Exc("KeyError", "API_ENDPOINT"))
            /\ UNCHANGED forwarder
       ELSE IF ~InEnviron("S3_BUCKET_NAME")
       THEN /\ Propagate(Exc("KeyError", "S3_BUCKET_NAME"))
            /\ UNCHANGED forwarder
       ELSE /\ forwarder' = [api_endpoint |-> Environ("API_ENDPOINT"),
                             bucket_name |-> Environ("S3_BUCKET_NAME")]
            /\ pc' = "loop"
            /\ UNCHANGED result
    /\ UNCHANGED <<environ, event, bucket_objects, idx, message_id, data,
                   calls, reads, posts, log>>

(* str(e) of a botocore error raised by get_object *)
GetObjectFailed == "An error occurred when calling the GetObject operation"

AttributeError == Exc("AttributeError", "object has no attribute 'get'")

(* one iteration of `for record in event.get("Records", [])` up to the call *)
NextRecord ==
    /\ pc = "loop"
    /\ idx < Len(Records)
    /\ idx' = idx + 1
    /\ LET record == Records[idx + 1]
           ses == Get(record, "ses", Dict({}))
           mail == Get(ses, "mail", Dict({}))
           mid == Get(mail, "messageId", Null)
       IN  IF ses.t # "dict" \/ mail.t # "dict"
           THEN /\ Propagate(AttributeError)
                /\ UNCHANGED <<message_id, calls>>
           ELSE IF Truthy(mid)
           THEN /\ message_id' = mid
                /\ calls' = Append(calls, [pos |-> idx + 1, id |-> mid,
                                           outcome |-> "running", exc |-> NoExc])
                /\ pc' = "get_object"
                /\ UNCHANGED result
           ELSE /\ UNCHANGED <<message_id, calls, pc, result>>
    /\ UNCHANGED <<environ, event, bucket_objects, forwarder, data, reads,
                   posts, log>>

(* return {"statusCode": 200} *)
ReturnAck ==
    /\ pc = "loop"
    /\ idx = Len(Records)
    /\ pc' = "returned"
    /\ result' = [kind |-> "return", statusCode |-> 200, exc |-> NoExc]
    /\ UNCHANGED <<environ, event, bucket_objects, forwarder, idx, message_id,
                   data, calls, reads, posts, log>>

(* response = s3_client.get_object(...); data = response["Body"].read() *)
GetObjectAlt ==
    /\ pc = "get_object"
    /\ LET bucket == forwarder.bucket_name
           key == Format(message_id)
           rd(e) == [pos |-> idx, bucket |-> bucket, key |-> key, exc |-> e]
       IN  \/ \E f \in StorageFaults :
                /\ reads' = Append(reads, rd(Exc(f, GetObjectFailed)))
                /\ Raise(Exc(f, GetObjectFailed))
                /\ UNCHANGED data
           \/ /\ ~HasObject(bucket, key)
              /\ reads' = Append(reads, rd(Exc("NoSuchKey", GetObjectFailed)))
              /\ data' = <<>>
              /\ pc' = "urlopen"
              /\ UNCHANGED <<calls, log, result>>
           \/ /\ HasObject(bucket, key)
              /\ reads' = Append(reads, rd(NoExc))
              /\ data' = ObjectBytes(bucket, key)
              /\ pc' = "urlopen"
              /\ UNCHANGED <<calls, log, result>>
    /\ UNCHANGED <<environ, event, bucket_objects, forwarder, idx, message_id,
                   posts>>
GetObject ==
    /\ pc = "get_object"
    /\ LET bucket == forwarder.bucket_name
           key == Format(message_id)
           rd(e) == [pos |-> idx, bucket |-> bucket, key |-> key, exc |-> e]
       IN  \/ \E f \in StorageFaults :
                /\ reads' = Append(reads, rd(Exc(f, GetObjectFailed)))
                /\ Raise(Exc(f, GetObjectFailed))
                /\ UNCHANGED data
           \/ /\ ~HasObject(bucket, key)
              /\ reads' = Append(reads, rd(Exc("NoSuchKey", GetObjectFailed)))
              /\ Raise(Exc("NoSuchKey", GetObjectFailed))
              /\ UNCHANGED data
           \/ /\ HasObject(bucket, key)
              /\ reads' = Append(reads, rd(NoExc))
              /\ data' = ObjectBytes(bucket, key)
              /\ pc' = "urlopen"
              /\ UNCHANGED <<calls, log, result>>
    /\ UNCHANGED <<environ, event, bucket_objects, forwarder, idx, message_id,
                   posts>>

(* req = Request(...); with urlopen(req, timeout=300) as response: ...     *)
UrlOpen ==
    /\ pc = "urlopen"
    /\ LET req == Request(forwarder, message_id, data)
           sent(net, status, e) ==
               posts \o [k \in DOMAIN Wire(req) |->
                           [pos |-> idx, req |-> Wire(req)[k], net |-> net,
                            status |-> status, exc |-> e]]
       IN  \/ \E f \in NetworkFaults :
                /\ posts' = sent(f, 0, Exc(f, "urlopen error"))
                /\ Raise(Exc(f, "urlopen error"))
           \/ \E status \in Statuses :
                IF RaisesHTTPError(status)
                THEN /\ posts' = sent("response", status,
                                      Exc("HTTPError", ToString(status)))
                     /\ Raise(Exc("HTTPError", ToString(status)))
                ELSE /\ posts' = sent("response", status, NoExc)
                     /\ log' = IF IsRejected(status)
                               THEN Append(log, [pos |-> idx,
                                                 line |-> ApiErrorLine(status)])
                               ELSE log
                     /\ calls' = Finish("returned", NoExc)
                     /\ pc' = "loop"
                     /\ UNCHANGED result
    /\ UNCHANGED <<environ, event, bucket_objects, forwarder, idx, message_id,
                   data, reads>>

Next == Construct \/ NextRecord \/ ReturnAck \/ GetObject \/ UrlOpen

Spec == Init /\ [][Next]_vars

(* ------------------- reading the recorded histories ------------------- *)

CallsAt(p) == {c \in DOMAIN calls : calls[c].pos = p}
ReadsOf(p) == {r \in DOMAIN reads : reads[r].pos = p}
PostsOf(p) == {j \in DOMAIN posts : posts[j].pos = p}
LinesOf(p) == {l \in DOMAIN log : log[l].pos = p}
Touched(p) == CallsAt(p) \cup ReadsOf(p) \cup PostsOf(p) \cup LinesOf(p)

Terminated == pc \in {"returned", "raised"}
Acked == pc = "returned" /\ result.kind = "return" /\ result.statusCode = 200
ConfigPresent == InEnviron("API_ENDPOINT") /\ InEnviron("S3_BUCKET_NAME")

(* the text of an identifier, as it names a stored object *)
KeyOf(id) == IF id.t = "str" THEN id.s ELSE ToString(id.n)

(* the value found by walking ses -> mail -> messageId, Null when the walk *)
(* cannot be made                                                          *)
Step(v, k) == IF v.t = "dict" /\ Has(v, k) THEN Get(v, k, Null) ELSE Null
IdOf(record) == Step(Step(Step(record, "ses"), "mail"), "messageId")

(* a level of the path is present but is not a mapping *)
BadLevel(record) ==
    \/ Has(record, "ses") /\ Get(record, "ses", Null).t # "dict"
    \/ /\ Has(record, "ses") /\ Get(record, "ses", Null).t = "dict"
       /\ Has(Get(record, "ses", Null), "mail")
       /\ Get(Get(record, "ses", Null), "mail", Null).t # "dict"

WellFormedId(record) == IdOf(record).t = "str" /\ IdOf(record).s # ""
AbsentOrEmpty(record) ==
    /\ ~BadLevel(record)
    /\ IdOf(record) \in {Null, Str("")}
Forwarded(record) == ~BadLevel(record) /\ ~AbsentOrEmpty(record)

(* the calls made so far are, in order and once each, the records among    *)
(* the first idx that satisfy P; only the latest call can be running       *)
CallsFollow(P(_)) ==
    /\ {calls[c].pos : c \in DOMAIN calls} = {p \in 1..idx : P(Records[p])}
    /\ \A c \in DOMAIN calls : \A d \in DOMAIN calls :
         c < d => calls[c].pos < calls[d].pos
    /\ \A c \in DOMAIN calls :
         /\ calls[c].id = IdOf(Records[calls[c].pos])
         /\ calls[c].outcome = "running" => c = Len(calls)

SkippedSilently(p) ==
    /\ Touched(p) = {}
    /\ ~(pc = "raised" /\ idx = p)

(* ------------------------------- claims ------------------------------- *)

(* C1 (as claimed): whenever the endpoint answers a POST with a status     *)
(* other than 200, the forward_email call that sent it returns normally.   *)
C1_NonOkReturnsNormally ==
    \A j \in DOMAIN posts :
        (posts[j].net = "response" /\ posts[j].status # 200) =>
            \E c \in CallsAt(posts[j].pos) : calls[c].outcome = "returned"

(* C2: a forward_email call whose storage read fails raises and issues no  *)
(* POST; every POST follows a successful read of the same identifier in    *)
(* the same call.                                                          *)
C2_FailedReadRaisesWithoutPost ==
    /\ \A r \in DOMAIN reads :
         reads[r].exc # NoExc =>
            /\ \A c \in CallsAt(reads[r].pos) : calls[c].outcome = "raised"
            /\ PostsOf(reads[r].pos) = {}
    /\ \A j \in DOMAIN posts :
         \E r \in ReadsOf(posts[j].pos) :
            /\ reads[r].exc = NoExc
            /\ \A c \in CallsAt(posts[j].pos) : reads[r].key = KeyOf(calls[c].id)

C2_Witness ==
    /\ posts # <<>>
    /\ \E r \in DOMAIN reads :
         /\ reads[r].exc.type = "NoSuchKey"
         /\ \E c \in CallsAt(reads[r].pos) : calls[c].outcome = "raised"

(* C3: once forward_email has raised for the record at position i, the     *)
(* same error has left lambda_handler, nothing was done for any later      *)
(* record, and no acknowledgement is returned.                             *)
C3_RaiseStopsBatch ==
    \A c \in DOMAIN calls :
        calls[c].outcome = "raised" =>
            /\ pc = "raised"
            /\ result.kind = "raise" /\ result.exc = calls[c].exc
            /\ ~Acked
            /\ idx = calls[c].pos
            /\ \A q \in (calls[c].pos + 1)..Len(Records) : Touched(q) = {}

C3_Witness ==
    \E c \in DOMAIN calls :
        /\ calls[c].outcome = "raised"
        /\ \E q \in (calls[c].pos + 1)..Len(Records) : WellFormedId(Records[q])

(* C4 (as claimed): forward_email is invoked once, in order and one at a   *)
(* time, for exactly the records reached so far that carry a well-formed   *)
(* (non-empty string) identifier, and every other record is skipped        *)
(* without raising and without a call, read, POST or log line.             *)
C4_UnusableSkippedSilently ==
    /\ CallsFollow(WellFormedId)
    /\ \A p \in 1..idx : ~WellFormedId(Records[p]) => SkippedSilently(p)

(* C4 (amended): forward_email is invoked once, in order and one at a      *)
(* time, for exactly the records reached so far whose ses.mail.messageId   *)
(* is truthy; a record whose path is absent at some level or whose         *)
(* messageId is empty or null is skipped without raising and without a     *)
(* call, read, POST or log line; a record with a level that is present but *)
(* not a mapping makes lambda_handler raise AttributeError.                *)
C4_TruthyForwardedAbsentSkipped ==
    /\ CallsFollow(Forwarded)
    /\ \A p \in 1..idx :
         /\ AbsentOrEmpty(Records[p]) => SkippedSilently(p)
         /\ BadLevel(Records[p]) =>
               /\ pc = "raised" /\ idx = p /\ Touched(p) = {}
               /\ result.exc.type = "AttributeError"

C4_Witness ==
    /\ Acked
    /\ \E p \in 1..idx : \E q \in 1..idx :
         /\ p < q
         /\ AbsentOrEmpty(Records[p])
         /\ \E c \in CallsAt(q) : calls[c].outcome = "returned"

(* C5: a forward_email call whose POST is answered 200 returns normally    *)
(* after exactly one successful storage read and exactly one POST.         *)
C5_OkMeansOneReadOnePost ==
    \A j \in DOMAIN posts :
        (posts[j].net = "response" /\ posts[j].status = 200) =>
            LET p == posts[j].pos IN
            /\ \A c \in CallsAt(p) : calls[c].outcome = "returned"
            /\ Cardinality(CallsAt(p)) = 1
            /\ Cardinality(ReadsOf(p)) = 1
            /\ \A r \in ReadsOf(p) : reads[r].exc = NoExc
            /\ Cardinality(PostsOf(p)) = 1
            /\ LinesOf(p) = {}

C5_Witness ==
    \E j \in DOMAIN posts :
        /\ posts[j].net = "response" /\ posts[j].status = 200
        /\ pc = "loop"

(* C6: every POST goes to the configured endpoint, carries the identifier  *)
(* of its record unchanged in X-Message-ID, and its body is the bytes of   *)
(* the object stored under that identifier in the configured bucket.       *)
C6_PostIsFaithful ==
    \A j \in DOMAIN posts :
        LET req == posts[j].req
            id == IdOf(Records[posts[j].pos])
        IN  /\ ConfigPresent
            /\ req.url = Environ("API_ENDPOINT")
            /\ req.method = "POST"
            /\ req.header = id
            /\ \E o \in bucket_objects :
                 /\ o[1] = Environ("S3_BUCKET_NAME")
                 /\ o[2] = KeyOf(id)
                 /\ o[3] = req.data

C6_Witness ==
    \E j \in DOMAIN posts : \E k \in DOMAIN posts :
        /\ posts[j].req.data = StoredBytes("m1")
        /\ posts[k].req.data = StoredBytes("m2")

C8_FaultLoggedOnceAndReraised ==
    \A c \in DOMAIN calls :
        LET p == calls[c].pos
            faults == ({reads[r].exc : r \in ReadsOf(p)}
                       \cup {posts[j].exc : j \in PostsOf(p)}) \ {NoExc}
        IN  /\ Cardinality(ReadsOf(p)) <= 1
            /\ Cardinality(PostsOf(p)) <= 1
            /\ (calls[c].outcome = "raised") <=> (faults # {})
            /\ faults # {} =>
                 /\ faults = {calls[c].exc}
                 /\ result.kind = "raise" /\ result.exc = calls[c].exc
                 /\ Cardinality(LinesOf(p)) = 1
                 /\ \A l \in LinesOf(p) :
                      /\ log[l].line[1] = "Error processing message"
                      /\ Mentions(log[l].line, KeyOf(calls[c].id))

C8_Witness ==
    \E c \in DOMAIN calls :
        /\ c > 1
        /\ calls[c].outcome = "raised"
        /\ calls[c].exc.type = "TimeoutError"

(* C9 (as claimed): a finished run returned the acknowledgement exactly    *)
(* when the configuration was present and every record was processed with  *)
(* no fault: no malformed record, every read succeeded, every POST got an  *)
(* HTTP response (a response of any status, rejections included).          *)
C9_AckIffNoFault ==
    Terminated =>
        (Acked <=>
            /\ ConfigPresent
            /\ \A p \in 1..Len(Records) :
                 /\ ~BadLevel(Records[p])
                 /\ Forwarded(Records[p]) =>
                      /\ \E r \in ReadsOf(p) : reads[r].exc = NoExc
                      /\ \E j \in PostsOf(p) : posts[j].net = "response")

(* C10: with the endpoint or the bucket missing from the environment the   *)
(* entry point examines no record, reads nothing, posts nothing and        *)
(* returns no acknowledgement, failing with KeyError; with both present    *)
(* every read uses that bucket and every POST that endpoint.               *)
C10_ConfigFailFastAndFixed ==
    /\ ~ConfigPresent =>
         /\ idx = 0 /\ calls = <<>> /\ reads = <<>> /\ posts = <<>>
         /\ ~Acked
         /\ pc \in {"init", "raised"}
         /\ pc = "raised" => result.exc.type = "KeyError"
    /\ ConfigPresent =>
         /\ \A r \in DOMAIN reads : reads[r].bucket = Environ("S3_BUCKET_NAME")
         /\ \A j \in DOMAIN posts : posts[j].req.url = Environ("API_ENDPOINT")
         /\ pc # "init" =>
              forwarder = [api_endpoint |-> Environ("API_ENDPOINT"),
                           bucket_name |-> Environ("S3_BUCKET_NAME")]

C10_Witness ==
    /\ ~InEnviron("S3_BUCKET_NAME")
    /\ InEnviron("API_ENDPOINT")
    /\ pc = "raised"
    /\ \E p \in 1..Len(Records) : WellFormedId(Records[p])

====
